---- MODULE Spec2Model ----
(***************************************************************************)
(* Model of the calendar reconciliation of the assistant application:      *)
(* syncEvents / insertEvent of time/index.js working on the Google         *)
(* calendar adapter (time/google_calendar.js) and the MongoDB event store  *)
(* (time/mongo_calendar.js).                                               *)
(*                                                                         *)
(* An event carries the four fields hasEventChanged compares: summary,     *)
(* start (start.dateTime), end (end.dateTime) and description.  Times are  *)
(* whole days counted from the moment of the run ("now" is day 0).  The    *)
(* other fields a Google event carries and that the spread {...googleEvent}*)
(* copies into the local record are not read by the synchronisation and    *)
(* are left out.                                                           *)
(***************************************************************************)
EXTENDS Integers, Sequences, FiniteSets, TLC

\* ---------------------------------------------------------------- bounds
MaxGid == 4          \* ids the remote calendar hands out
MaxOid == 3          \* _ids the local store hands out
MaxExternal == 2     \* changes made outside syncEvents
MaxTime == 5         \* latest instant of a busy interval, of now and of endOfDay
MaxBusy == 2         \* events passed to calculateFreeTimeIntervals
MaxTask == 2         \* tasks stored by storeTask
MaxClient == 3       \* MongoClient objects one module creates

\* ------------------------------------------------------ program constants
WindowDays == 7      \* Date.now() + 7 * 24 * 60 * 60 * 1000

NoId == 0                     \* null / undefined googleEventId, absent record
SyncProcs == {1}              \* the run of the sequential specification
ConcProcs == {1, 2}           \* the runs of the concurrent specification
Summaries == {"A", "B"}
Descriptions == {"x", "y"}
StartTimes == {1, 9}          \* day 1: inside the fetch window, day 9: outside

VARIABLES
  remote,        \* the Google calendar: set of events [id, summary, start, end, description]
  local,         \* the MongoDB collection: set of records [_id, googleEventId, ...]
  nextGid,       \* next id the remote calendar assigns
  nextOid,       \* next _id the local store assigns
  pc,            \* position of each syncEvents run
  googleEvents,  \* per run: const googleEvents (the remote snapshot)
  mongoEvents,   \* per run: const mongoEvents (the local snapshot)
  gi,            \* per run: position of the loop over googleEvents
  mj,            \* per run: position of the loop over mongoEvents
  newGoogleEvent,\* per run: id of the event createEvent just returned
  failed,        \* per run: the catch block was entered
  ops,           \* per run: the adapter mutations the run has performed so far
  quiet,         \* per run: nothing outside the run changed a store since it started
  settled,       \* the last run completed without failure and nothing changed since
  ext,           \* number of outside changes made so far
  remoteCreates, \* <<_id, id, run>> of every remote create by a run since the last outside change
  insPc,         \* position of the insertEvent call of time/index.js
  insData,       \* its eventData
  insGid,        \* its googleEvent.id
  started,       \* per run of the concurrent specification: syncEvents was called
  syncResult,    \* per run: what the caller of syncEvents sees ("none" before the first call)
  \* calculateFreeTimeIntervals(events)
  ftPc,          \* position of the call
  ftEvents,      \* the events array, sorted in place by the first statement
  ftNow,         \* the value of new Date()
  ftEndOfDay,    \* endOfDay: 23:59:59.999 of the current day
  ftCursor,      \* currentFreeTimeStart
  ftIdx,         \* position of the loop over events
  ftFree,        \* freeTimeIntervals
  \* tasks/scheduling_interface.js on tasks/tasks_data.js
  tasks,         \* the tasks collection: set of records [_id, title, duration, scheduled, calendarEventId]
  nextTid,       \* next _id the tasks collection assigns
  schPc,         \* position of the scheduleTask / suggestTimeSlots call
  schArg,        \* the function called and its arguments [op, taskId, start, end, zone]
  schTask,       \* const task
  schEvent,      \* const event = {googleEventId, mongoEventId}
  schResult,     \* what the caller sees: "none", "pending", a returned value or the error thrown
  schCalls,      \* the calls the current call made to the calendar, event store and task update
  schFree,       \* const freeTimeIntervals
  schSlots,      \* const timeSlotsInTimeZone
  unscheduled,   \* the tasks for which unscheduleTask returned after it removed their event
  connOpen,      \* time/mongo_calendar.js: client && client.isConnected()
  \* createTask of tasks/tasks_manager.js
  ctPc,          \* position of the createTask call
  ctData,        \* its taskData
  ctResult,      \* what the caller sees
  ctCalls,       \* the calls it made to tasks/tasks_data.js
  \* connectToDatabase / closeConnection of one data adapter module
  client,        \* let client: the MongoClient the module holds, NoId before the first
  clients,       \* the state of every MongoClient created so far
  nextClient,    \* number of the next MongoClient created
  cpc,           \* per caller: position in connectToDatabase / closeConnection
  cown           \* per caller: the client whose connect() or close() it awaits

vars == <<remote, local, nextGid, nextOid, pc, googleEvents, mongoEvents, gi, mj,
          newGoogleEvent, failed, ops, quiet, settled, ext, remoteCreates,
          insPc, insData, insGid, started, syncResult,
          ftPc, ftEvents, ftNow, ftEndOfDay, ftCursor, ftIdx, ftFree,
          tasks, nextTid, schPc, schArg, schTask, schEvent, schResult, schCalls,
          schFree, schSlots, unscheduled, connOpen,
          ctPc, ctData, ctResult, ctCalls, client, clients, nextClient, cpc, cown>>

runVars == <<pc, googleEvents, mongoEvents, gi, mj, newGoogleEvent, failed, ops>>
insVars == <<insPc, insData, insGid>>
freeVars == <<ftPc, ftEvents, ftNow, ftEndOfDay, ftCursor, ftIdx, ftFree>>
schedVars == <<tasks, nextTid, schPc, schArg, schTask, schEvent, schResult, schCalls,
               schFree, schSlots, unscheduled>>
schLocals == <<schArg, schTask, schEvent, schFree, schSlots>>
storeVars == <<remote, local, nextGid, nextOid>>
createVars == <<ctPc, ctData, ctResult, ctCalls>>
connVars == <<client, clients, nextClient, cpc, cown>>
dataVars == <<createVars, connVars>>
syncVars == <<runVars, quiet, settled, ext, remoteCreates, insVars, started, syncResult>>

\* ------------------------------------------------------------ event data
EventData(s, st, en, d) == [summary |-> s, start |-> st, end |-> en, description |-> d]

DataOf(e) == EventData(e.summary, e.start, e.end, e.description)

GoogleEvent(id, data) ==
  [id |-> id, summary |-> data.summary, start |-> data.start, end |-> data.end,
   description |-> data.description]

MongoEvent(oid, gid, data) ==
  [_id |-> oid, googleEventId |-> gid, summary |-> data.summary, start |-> data.start,
   end |-> data.end, description |-> data.description]

NoData == EventData("A", 1, 2, "x")

\* calendar.events.list with timeMin = now and timeMax = now + 7 days
InWindow(e) == e.end > 0 /\ e.start < WindowDays

\* orderBy: "startTime"
RECURSIVE ByStartTime(_)
ByStartTime(S) ==
  IF S = {} THEN <<>>
  ELSE LET m == CHOOSE x \in S : \A y \in S :
                  x.start < y.start \/ (x.start = y.start /\ x.id <= y.id)
       IN <<m>> \o ByStartTime(S \ {m})

\* collection.find(query).toArray(): natural (insertion) order
RECURSIVE ByInsertion(_)
ByInsertion(S) ==
  IF S = {} THEN <<>>
  ELSE LET m == CHOOSE x \in S : \A y \in S : x._id <= y._id
       IN <<m>> \o ByInsertion(S \ {m})

ListEvents == ByStartTime({e \in remote : InWindow(e)})

FindAll == ByInsertion(local)

\* ------------------------------------------------------ mongo_calendar.js
\* collection.insertOne(eventData)
InsertOne(coll, oid, gid, data) == coll \cup {MongoEvent(oid, gid, data)}

\* an update that removes the record it matches
UpdateOneDrop(coll, oid, gid, data) == {l \in coll : l._id # oid}

\* an update that sets googleEventId alone and leaves the four fields as stored
UpdateOneIdOnly(coll, oid, gid, data) ==
  {IF l._id = oid THEN MongoEvent(oid, gid, DataOf(l)) ELSE l : l \in coll}

\* collection.updateOne({_id}, {$set: eventData}) with eventData carrying the
\* four fields and googleEventId; a missing _id matches nothing
UpdateOne(coll, oid, gid, data) ==
  {IF l._id = oid THEN MongoEvent(oid, gid, data) ELSE l : l \in coll}

\* ------------------------------------------------------------ syncEvents
\* a map whose lookups never hit
MapIndexNone(snap, gid) == 0

\* mongoEventsMap.get(id): forEach sets the entry again for a later record
\* with the same googleEventId, so the last one wins
MapIndex(snap, gid) ==
  LET hits == {k \in 1..Len(snap) : snap[k].googleEventId # NoId
                                     /\ snap[k].googleEventId = gid}
  IN IF hits = {} THEN 0 ELSE CHOOSE k \in hits : \A h \in hits : h <= k

\* a comparison that leaves the description out
HasEventChangedNoDescription(g, m) ==
  \/ g.summary # m.summary
  \/ g.start # m.start
  \/ g.end # m.end

hasEventChanged(g, m) ==
  \/ g.summary # m.summary
  \/ g.start # m.start
  \/ g.end # m.end
  \/ g.description # m.description

\* a lookup that never finds the event
FoundInSnapshotNever(gsnap, m) == FALSE

\* a lookup in the calendar as it is now instead of the fetched list
FoundLive(gsnap, m) == \E r \in remote : r.id = m.googleEventId

\* googleEvents.find((event) => event.id === mongoEvent.googleEventId)
FoundInSnapshot(gsnap, m) == \E k \in 1..Len(gsnap) : gsnap[k].id = m.googleEventId

\* a second loop without the continue
SkipUnlinkedNever(m) == FALSE

\* if (!mongoEvent.googleEventId) continue;
SkipUnlinked(m) == m.googleEventId = NoId

Op(kind, oid, gid) == [op |-> kind, oid |-> oid, gid |-> gid]


\* ------------------------------------------------------------------ Init
\* no call of calculateFreeTimeIntervals is in progress
FreeIdle ==
  /\ ftPc = "idle"
  /\ ftEvents = <<>>
  /\ ftNow = 0
  /\ ftEndOfDay = 0
  /\ ftCursor = 0
  /\ ftIdx = 1
  /\ ftFree = <<>>

NoArg == [op |-> "none", taskId |-> NoId, start |-> 0, end |-> 0, zone |-> 0]
NoTask == [_id |-> NoId]
NoEvent == [googleEventId |-> NoId, mongoEventId |-> NoId]

\* no task is stored and no call of the scheduling interface is in progress
SchedIdle ==
  /\ tasks = {}
  /\ nextTid = 1
  /\ schPc = "idle"
  /\ schArg = NoArg
  /\ schTask = NoTask
  /\ schEvent = NoEvent
  /\ schResult = "none"
  /\ schCalls = <<>>
  /\ schFree = <<>>
  /\ schSlots = <<>>
  /\ unscheduled = {}

\* the JavaScript values of the fields of a taskData: typeof, the value of
\* a string or of a number, NaN, and whether new Date(value) is a valid date
JsValue(type, str, num, nan, validDate) ==
  [type |-> type, s |-> str, n |-> num, nan |-> nan, validDate |-> validDate]
Missing == JsValue("undefined", "", 0, FALSE, FALSE)
NoTaskData == [title |-> Missing, duration |-> Missing, date |-> Missing]

\* no call of createTask is in progress
CreateIdle ==
  /\ ctPc = "idle"
  /\ ctData = NoTaskData
  /\ ctResult = "none"
  /\ ctCalls = <<>>

ConnProcs == {1, 2}           \* the concurrent callers of one data adapter module

\* the module is loaded: let client; is undefined and no MongoClient exists
ConnIdle ==
  /\ client = NoId
  /\ clients = [n \in 1..MaxClient |-> "none"]
  /\ nextClient = 1
  /\ cpc = [p \in ConnProcs |-> "idle"]
  /\ cown = [p \in ConnProcs |-> NoId]

Init ==
  /\ remote = {}
  /\ local = {}
  /\ nextGid = 1
  /\ nextOid = 1
  /\ pc = [p \in ConcProcs |-> "idle"]
  /\ googleEvents = [p \in ConcProcs |-> <<>>]
  /\ mongoEvents = [p \in ConcProcs |-> <<>>]
  /\ gi = [p \in ConcProcs |-> 1]
  /\ mj = [p \in ConcProcs |-> 1]
  /\ newGoogleEvent = [p \in ConcProcs |-> NoId]
  /\ failed = [p \in ConcProcs |-> FALSE]
  /\ ops = [p \in ConcProcs |-> <<>>]
  /\ quiet = [p \in ConcProcs |-> FALSE]
  /\ settled = FALSE
  /\ ext = 0
  /\ remoteCreates = {}
  /\ insPc = "idle"
  /\ insData = NoData
  /\ insGid = NoId
  /\ started = [p \in ConcProcs |-> FALSE]
  /\ syncResult = [p \in ConcProcs |-> "none"]
  /\ FreeIdle
  /\ SchedIdle
  /\ connOpen = FALSE
  /\ CreateIdle
  /\ ConnIdle

\* A store was changed by somebody other than run p
Disturb(p) ==
  /\ quiet' = [q \in ConcProcs |-> IF q = p THEN quiet[q] ELSE FALSE]
  /\ UNCHANGED settled

\* A store was changed from outside every run
DisturbAll ==
  /\ quiet' = [q \in ConcProcs |-> FALSE]
  /\ settled' = FALSE
  /\ remoteCreates' = {}

\* ------------------------------------------------- syncEvents, step by step
\* syncEvents() is called
Begin(p) ==
  /\ pc[p] = "idle"
  /\ pc' = [pc EXCEPT ![p] = "auth"]
  /\ quiet' = [quiet EXCEPT ![p] = TRUE]
  /\ syncResult' = [syncResult EXCEPT ![p] = "pending"]
  /\ UNCHANGED <<remote, local, nextGid, nextOid, googleEvents, mongoEvents, gi, mj,
                 newGoogleEvent, failed, ops, settled, ext, remoteCreates, insVars,
                 freeVars, schedVars,
                 connOpen, dataVars>>

\* a run of the sequential specification: the host calls syncEvents again and again
StartSync(p) ==
  /\ Begin(p)
  /\ UNCHANGED started

\* a run of the concurrent specification: the host calls syncEvents once per run
StartSyncOnce(p) ==
  /\ ~started[p]
  /\ Begin(p)
  /\ started' = [started EXCEPT ![p] = TRUE]

\* const auth = await googleCalendar.authenticate();
Authenticate(p) ==
  /\ pc[p] = "auth"
  /\ pc' = [pc EXCEPT ![p] = "fetchG"]
  /\ UNCHANGED <<remote, local, nextGid, nextOid, googleEvents, mongoEvents, gi, mj,
                 newGoogleEvent, failed, ops, quiet, settled, ext, remoteCreates, insVars, started, syncResult, freeVars, schedVars,
                 connOpen, dataVars>>

\* const googleEvents = await googleCalendar.fetchEvents(auth, id, now, now + 7 days);
FetchGoogle(p) ==
  /\ pc[p] = "fetchG"
  /\ googleEvents' = [googleEvents EXCEPT ![p] = ListEvents]
  /\ pc' = [pc EXCEPT ![p] = "fetchM"]
  /\ UNCHANGED <<remote, local, nextGid, nextOid, mongoEvents, gi, mj,
                 newGoogleEvent, failed, ops, quiet, settled, ext, remoteCreates, insVars, started, syncResult, freeVars, schedVars,
                 connOpen, dataVars>>

\* const mongoEvents = await mongoCalendar.fetchEvents({});
FetchMongo(p) ==
  /\ pc[p] = "fetchM"
  /\ mongoEvents' = [mongoEvents EXCEPT ![p] = FindAll]
  /\ gi' = [gi EXCEPT ![p] = 1]
  /\ pc' = [pc EXCEPT ![p] = "g2m"]
  /\ connOpen' = TRUE
  /\ UNCHANGED <<remote, local, nextGid, nextOid, googleEvents, mj,
                 newGoogleEvent, failed, ops, quiet, settled, ext, remoteCreates, insVars, started, syncResult, freeVars, schedVars,
                 dataVars>>

\* the googleEvent and the mapped mongoEvent of the current iteration
CurGoogle(p) == googleEvents[p][gi[p]]
CurMapped(p) == MapIndex(mongoEvents[p], CurGoogle(p).id)
InG2M(p) == pc[p] = "g2m" /\ gi[p] <= Len(googleEvents[p])

\* if (!mongoEvent) await mongoCalendar.insertEvent({...googleEvent, googleEventId})
G2MInsert(p) ==
  /\ InG2M(p)
  /\ CurMapped(p) = 0
  /\ nextOid <= MaxOid
  /\ local' = InsertOne(local, nextOid, CurGoogle(p).id, DataOf(CurGoogle(p)))
  /\ nextOid' = nextOid + 1
  /\ ops' = [ops EXCEPT ![p] = Append(@, Op("CreateLocal", nextOid, CurGoogle(p).id))]
  /\ gi' = [gi EXCEPT ![p] = @ + 1]
  /\ Disturb(p)
  /\ connOpen' = TRUE
  /\ UNCHANGED <<remote, nextGid, pc, googleEvents, mongoEvents, mj, newGoogleEvent,
                 failed, ext, remoteCreates, insVars, started, syncResult, freeVars, schedVars,
                 dataVars>>

\* else if (hasEventChanged(googleEvent, mongoEvent))
\*   await mongoCalendar.updateEvent(mongoEvent._id, {...googleEvent, googleEventId})
G2MUpdate(p) ==
  /\ InG2M(p)
  /\ CurMapped(p) # 0
  /\ LET m == mongoEvents[p][CurMapped(p)] IN
       /\ hasEventChanged(CurGoogle(p), m)
       /\ local' = UpdateOne(local, m._id, CurGoogle(p).id, DataOf(CurGoogle(p)))
       /\ ops' = [ops EXCEPT ![p] = Append(@, Op("UpdateLocal", m._id, CurGoogle(p).id))]
  /\ gi' = [gi EXCEPT ![p] = @ + 1]
  /\ Disturb(p)
  /\ connOpen' = TRUE
  /\ UNCHANGED <<remote, nextGid, nextOid, pc, googleEvents, mongoEvents, mj,
                 newGoogleEvent, failed, ext, remoteCreates, insVars, started, syncResult, freeVars, schedVars,
                 dataVars>>

\* mapped and unchanged: the iteration calls nothing
G2MSkip(p) ==
  /\ InG2M(p)
  /\ CurMapped(p) # 0
  /\ ~hasEventChanged(CurGoogle(p), mongoEvents[p][CurMapped(p)])
  /\ gi' = [gi EXCEPT ![p] = @ + 1]
  /\ UNCHANGED <<remote, local, nextGid, nextOid, pc, googleEvents, mongoEvents, mj,
                 newGoogleEvent, failed, ops, quiet, settled, ext, remoteCreates, insVars, started, syncResult, freeVars, schedVars,
                 connOpen, dataVars>>

\* the first loop is over: the second loop starts
G2MDone(p) ==
  /\ pc[p] = "g2m"
  /\ gi[p] > Len(googleEvents[p])
  /\ mj' = [mj EXCEPT ![p] = 1]
  /\ pc' = [pc EXCEPT ![p] = "m2g"]
  /\ UNCHANGED <<remote, local, nextGid, nextOid, googleEvents, mongoEvents, gi,
                 newGoogleEvent, failed, ops, quiet, settled, ext, remoteCreates, insVars, started, syncResult, freeVars, schedVars,
                 connOpen, dataVars>>

CurMongo(p) == mongoEvents[p][mj[p]]
InM2G(p) == pc[p] = "m2g" /\ mj[p] <= Len(mongoEvents[p])
NeedsRemote(p) ==
  /\ ~SkipUnlinked(CurMongo(p))
  /\ ~FoundInSnapshot(googleEvents[p], CurMongo(p))

\* continue, or the googleEvent was found: the iteration calls nothing
M2GSkip(p) ==
  /\ InM2G(p)
  /\ ~NeedsRemote(p)
  /\ mj' = [mj EXCEPT ![p] = @ + 1]
  /\ UNCHANGED <<remote, local, nextGid, nextOid, pc, googleEvents, mongoEvents, gi,
                 newGoogleEvent, failed, ops, quiet, settled, ext, remoteCreates, insVars, started, syncResult, freeVars, schedVars,
                 connOpen, dataVars>>

\* const newGoogleEvent = await googleCalendar.createEvent(auth, id, mongoEvent);
\* the calendar assigns the new event an id of its own
M2GCreate(p) ==
  /\ InM2G(p)
  /\ NeedsRemote(p)
  /\ nextGid <= MaxGid
  /\ remote' = remote \cup {GoogleEvent(nextGid, DataOf(CurMongo(p)))}
  /\ nextGid' = nextGid + 1
  /\ newGoogleEvent' = [newGoogleEvent EXCEPT ![p] = nextGid]
  /\ ops' = [ops EXCEPT ![p] = Append(@, Op("CreateRemote", CurMongo(p)._id, nextGid))]
  /\ remoteCreates' = remoteCreates \cup {<<CurMongo(p)._id, nextGid, p>>}
  /\ pc' = [pc EXCEPT ![p] = "link"]
  /\ Disturb(p)
  /\ UNCHANGED <<local, nextOid, googleEvents, mongoEvents, gi, mj, failed, ext, insVars, started, syncResult, freeVars, schedVars,
                 connOpen, dataVars>>

\* a link step after which the loop stays on the same mongoEvent
M2GLinkNoAdvance(p) ==
  /\ pc[p] = "link"
  /\ local' = UpdateOne(local, CurMongo(p)._id, newGoogleEvent[p], DataOf(CurMongo(p)))
  /\ ops' = [ops EXCEPT ![p] = Append(@, Op("LinkLocal", CurMongo(p)._id, newGoogleEvent[p]))]
  /\ newGoogleEvent' = [newGoogleEvent EXCEPT ![p] = NoId]
  /\ pc' = [pc EXCEPT ![p] = "m2g"]
  /\ Disturb(p)
  /\ connOpen' = TRUE
  /\ UNCHANGED <<remote, nextGid, nextOid, googleEvents, mongoEvents, gi, mj, failed,
                 ext, remoteCreates, insVars, started, syncResult, freeVars, schedVars,
                 dataVars>>

\* await mongoCalendar.updateEvent(mongoEvent._id,
\*   {...mongoEvent, googleEventId: newGoogleEvent.id});
M2GLink(p) ==
  /\ pc[p] = "link"
  /\ local' = UpdateOne(local, CurMongo(p)._id, newGoogleEvent[p], DataOf(CurMongo(p)))
  /\ ops' = [ops EXCEPT ![p] = Append(@, Op("LinkLocal", CurMongo(p)._id, newGoogleEvent[p]))]
  /\ newGoogleEvent' = [newGoogleEvent EXCEPT ![p] = NoId]
  /\ mj' = [mj EXCEPT ![p] = @ + 1]
  /\ pc' = [pc EXCEPT ![p] = "m2g"]
  /\ Disturb(p)
  /\ connOpen' = TRUE
  /\ UNCHANGED <<remote, nextGid, nextOid, googleEvents, mongoEvents, gi, failed,
                 ext, remoteCreates, insVars, started, syncResult, freeVars, schedVars,
                 dataVars>>

\* the second loop is over: the finally block is next
M2GDone(p) ==
  /\ pc[p] = "m2g"
  /\ mj[p] > Len(mongoEvents[p])
  /\ pc' = [pc EXCEPT ![p] = "close"]
  /\ UNCHANGED <<remote, local, nextGid, nextOid, googleEvents, mongoEvents, gi, mj,
                 newGoogleEvent, failed, ops, quiet, settled, ext, remoteCreates, insVars, started, syncResult, freeVars, schedVars,
                 connOpen, dataVars>>

\* the run waits for an adapter call, which may throw
AwaitsCall(p) ==
  \/ pc[p] \in {"auth", "fetchG", "fetchM", "link"}
  \/ InG2M(p) /\ (IF CurMapped(p) = 0 THEN TRUE
                  ELSE hasEventChanged(CurGoogle(p), mongoEvents[p][CurMapped(p)]))
  \/ InM2G(p) /\ NeedsRemote(p)

\* the call the run waits for is a call of mongo_calendar.js
AwaitsMongoCall(p) == pc[p] \in {"fetchM", "link"} \/ InG2M(p)

\* catch (error) { console.error(...) }: whatever was applied stays applied;
\* a call of mongo_calendar.js throws in connectToDatabase or after it
SyncFail(p) ==
  /\ AwaitsCall(p)
  /\ failed' = [failed EXCEPT ![p] = TRUE]
  /\ pc' = [pc EXCEPT ![p] = "close"]
  /\ connOpen' \in (IF AwaitsMongoCall(p) THEN {connOpen, TRUE} ELSE {connOpen})
  /\ UNCHANGED <<remote, local, nextGid, nextOid, googleEvents, mongoEvents, gi, mj,
                 newGoogleEvent, ops, quiet, settled, ext, remoteCreates, insVars,
                 started, syncResult, freeVars, schedVars, dataVars>>

\* what the promise of syncEvents settles to: the catch block logs the error
\* and does not throw it again, so the call resolves whether or not it failed
SyncOutcome(hasFailed) == "resolved"

\* finally { await mongoCalendar.closeConnection(); } and syncEvents returns
SyncClose(p) ==
  /\ pc[p] = "close"
  /\ settled' = (quiet[p] /\ ~failed[p])
  /\ pc' = [pc EXCEPT ![p] = "idle"]
  /\ googleEvents' = [googleEvents EXCEPT ![p] = <<>>]
  /\ mongoEvents' = [mongoEvents EXCEPT ![p] = <<>>]
  /\ gi' = [gi EXCEPT ![p] = 1]
  /\ mj' = [mj EXCEPT ![p] = 1]
  /\ newGoogleEvent' = [newGoogleEvent EXCEPT ![p] = NoId]
  /\ failed' = [failed EXCEPT ![p] = FALSE]
  /\ ops' = [ops EXCEPT ![p] = <<>>]
  /\ quiet' = [quiet EXCEPT ![p] = FALSE]
  /\ syncResult' = [syncResult EXCEPT ![p] = SyncOutcome(failed[p])]
  /\ connOpen' = FALSE
  /\ UNCHANGED <<remote, local, nextGid, nextOid, ext, remoteCreates, insVars, started,
                 freeVars, schedVars,
                 dataVars>>


\* --------------------------------------------- changes from outside the run
\* the data of a newly made event: its day is inside or outside the window
NewData == {EventData("A", st, st + 2, "x") : st \in StartTimes}

\* the edits of one field of an event, the other three kept
Flip(v, S) == CHOOSE w \in S : w # v
Edits(e) ==
  LET base == IF e.start \in StartTimes THEN e.start ELSE e.start - 1 IN
  { EventData(Flip(e.summary, Summaries), e.start, e.end, e.description),
    EventData(e.summary, Flip(e.start, {base, base + 1}), e.end, e.description),
    EventData(e.summary, e.start, Flip(e.end, {base + 2, base + 3}), e.description),
    EventData(e.summary, e.start, e.end, Flip(e.description, Descriptions)) }

\* the owner of the calendar adds an event on the remote side
RemoteAdd ==
  /\ ext < MaxExternal
  /\ nextGid <= MaxGid
  /\ \E d \in NewData : remote' = remote \cup {GoogleEvent(nextGid, d)}
  /\ nextGid' = nextGid + 1
  /\ ext' = ext + 1
  /\ DisturbAll
  /\ UNCHANGED <<local, nextOid, runVars, insVars, started, syncResult, freeVars, schedVars,
                 connOpen, dataVars>>

\* the owner of the calendar edits one field of a remote event
RemoteEdit ==
  /\ ext < MaxExternal
  /\ \E e \in remote : \E d \in Edits(e) :
       remote' = (remote \ {e}) \cup {GoogleEvent(e.id, d)}
  /\ ext' = ext + 1
  /\ DisturbAll
  /\ UNCHANGED <<local, nextGid, nextOid, runVars, insVars, started, syncResult, freeVars, schedVars,
                 connOpen, dataVars>>

\* the owner of the calendar deletes a remote event
RemoteDelete ==
  /\ ext < MaxExternal
  /\ \E e \in remote : remote' = remote \ {e}
  /\ ext' = ext + 1
  /\ DisturbAll
  /\ UNCHANGED <<local, nextGid, nextOid, runVars, insVars, started, syncResult, freeVars, schedVars,
                 connOpen, dataVars>>

\* mongoCalendar.insertEvent(eventData) of an event that is not linked
LocalAdd ==
  /\ ext < MaxExternal
  /\ nextOid <= MaxOid
  /\ \E d \in NewData : local' = InsertOne(local, nextOid, NoId, d)
  /\ nextOid' = nextOid + 1
  /\ ext' = ext + 1
  /\ DisturbAll
  /\ connOpen' = TRUE
  /\ UNCHANGED <<remote, nextGid, runVars, insVars, started, syncResult, freeVars, schedVars,
                 dataVars>>

\* ------------------------------------------------ insertEvent (time/index.js)
\* insertEvent(eventData) is called; const auth = await authenticate();
InsertCall ==
  /\ insPc = "idle"
  /\ ext < MaxExternal
  /\ \E d \in NewData : insData' = d
  /\ insPc' = "create"
  /\ ext' = ext + 1
  /\ UNCHANGED <<remote, local, nextGid, nextOid, runVars, quiet, settled,
                 remoteCreates, insGid, started, syncResult, freeVars, schedVars,
                 connOpen, dataVars>>

\* const googleEvent = await googleCalendar.createEvent(auth, id, eventData);
InsertCreate ==
  /\ insPc = "create"
  /\ nextGid <= MaxGid
  /\ remote' = remote \cup {GoogleEvent(nextGid, insData)}
  /\ insGid' = nextGid
  /\ nextGid' = nextGid + 1
  /\ insPc' = "store"
  /\ DisturbAll
  /\ UNCHANGED <<local, nextOid, runVars, ext, insData, started, syncResult, freeVars, schedVars,
                 connOpen, dataVars>>

\* await mongoCalendar.insertEvent({...eventData, googleEventId: googleEvent.id});
InsertStore ==
  /\ insPc = "store"
  /\ nextOid <= MaxOid
  /\ local' = InsertOne(local, nextOid, insGid, insData)
  /\ nextOid' = nextOid + 1
  /\ insPc' = "idle"
  /\ insData' = NoData
  /\ insGid' = NoId
  /\ DisturbAll
  /\ connOpen' = TRUE
  /\ UNCHANGED <<remote, nextGid, runVars, ext, started, syncResult, freeVars, schedVars,
                 dataVars>>

\* catch (error) { ...; throw error; }: an adapter call of insertEvent failed
InsertFail ==
  /\ insPc \in {"create", "store"}
  /\ insPc' = "idle"
  /\ insData' = NoData
  /\ insGid' = NoId
  /\ UNCHANGED <<remote, local, nextGid, nextOid, runVars, quiet, settled, ext,
                 remoteCreates, started, syncResult, freeVars, schedVars,
                 connOpen, dataVars>>

\* ------------------------------------------------------- specifications
SyncStep(p) ==
  \/ StartSync(p)
  \/ Authenticate(p)
  \/ FetchGoogle(p)
  \/ FetchMongo(p)
  \/ G2MInsert(p)
  \/ G2MUpdate(p)
  \/ G2MSkip(p)
  \/ G2MDone(p)
  \/ M2GSkip(p)
  \/ M2GCreate(p)
  \/ M2GLink(p)
  \/ M2GDone(p)
  \/ SyncClose(p)

Outside ==
  \/ RemoteAdd
  \/ RemoteEdit
  \/ RemoteDelete
  \/ LocalAdd
  \/ InsertCall
  \/ InsertCreate
  \/ InsertStore
  \/ InsertFail

\* one run of syncEvents at a time, adapter failures, changes from outside
Next ==
  \/ \E p \in SyncProcs : SyncStep(p)
  \/ \E p \in SyncProcs : SyncFail(p)
  \/ Outside

Spec == Init /\ [][Next]_vars


\* two runs of syncEvents started by the host with no lock between them, on a
\* calendar that holds at most one remote event, and a local store that is
\* empty or holds one record: one whose remote event was deleted, or one that
\* is linked to the remote event and differs from it
ConcData == EventData("A", 1, 3, "x")

InitConc ==
  /\ remote \in SUBSET {GoogleEvent(1, ConcData)}
  /\ local \in {{}, {MongoEvent(1, 2, ConcData)},
                 {MongoEvent(1, 1, EventData("B", 1, 3, "x"))}}
  /\ nextGid = 3
  /\ nextOid = 2
  /\ pc = [p \in ConcProcs |-> "idle"]
  /\ googleEvents = [p \in ConcProcs |-> <<>>]
  /\ mongoEvents = [p \in ConcProcs |-> <<>>]
  /\ gi = [p \in ConcProcs |-> 1]
  /\ mj = [p \in ConcProcs |-> 1]
  /\ newGoogleEvent = [p \in ConcProcs |-> NoId]
  /\ failed = [p \in ConcProcs |-> FALSE]
  /\ ops = [p \in ConcProcs |-> <<>>]
  /\ quiet = [p \in ConcProcs |-> FALSE]
  /\ settled = FALSE
  /\ ext = 0
  /\ remoteCreates = {}
  /\ insPc = "idle"
  /\ insData = NoData
  /\ insGid = NoId
  /\ started = [p \in ConcProcs |-> FALSE]
  /\ syncResult = [p \in ConcProcs |-> "none"]
  /\ FreeIdle
  /\ SchedIdle
  /\ connOpen = FALSE
  /\ CreateIdle
  /\ ConnIdle

ConcStep(p) ==
  \/ StartSyncOnce(p)
  \/ Authenticate(p)
  \/ FetchGoogle(p)
  \/ FetchMongo(p)
  \/ G2MInsert(p)
  \/ G2MUpdate(p)
  \/ G2MSkip(p)
  \/ G2MDone(p)
  \/ M2GSkip(p)
  \/ M2GCreate(p)
  \/ M2GLink(p)
  \/ M2GDone(p)
  \/ SyncClose(p)

NextConc == \E p \in ConcProcs : ConcStep(p)

SpecConc == InitConc /\ [][NextConc]_vars

\* ------------------------------------------------------- shared predicates
\* run p has reached the finally block without a failure and nothing outside
\* the run changed a store while it ran
Finished(p) == pc[p] = "close" /\ ~failed[p] /\ quiet[p]

SnapshotIds(p) == {googleEvents[p][k].id : k \in 1..Len(googleEvents[p])}

OpsOf(p, kind) == {k \in 1..Len(ops[p]) : ops[p][k].op = kind}

\* ------------------------------------------------------------------ claims

\* C1: idempotence. After a run that completed without failure, and with no
\* change from outside since, a further run performs no insert, no update and
\* no remote create: its list of operations stays empty.  The claim includes
\* linked local events outside the 7-day fetch window.
C1_SecondRunDoesNothing ==
  \A p \in SyncProcs : (settled /\ pc[p] # "idle") => ops[p] = <<>>

\* C2: partial failure. With no change from outside, the run after a failed
\* run corrects the state; in particular a local record inside the fetch
\* window never has a second remote event created for it.
C2_NoSecondRemoteCreate ==
  \A l \in local :
    InWindow(l) => Cardinality({t \in remoteCreates : t[1] = l._id}) <= 1

\* C3: convergence. When a run completes, every remote event of its snapshot
\* has a local record that carries its id and its four fields, and every
\* linked local record refers to an event that exists on the remote calendar.
C3_Converged ==
  \A p \in SyncProcs :
    Finished(p) =>
      /\ \A k \in 1..Len(googleEvents[p]) :
           \E l \in local :
             /\ l.googleEventId = googleEvents[p][k].id
             /\ l.summary = googleEvents[p][k].summary
             /\ l.start = googleEvents[p][k].start
             /\ l.end = googleEvents[p][k].end
             /\ l.description = googleEvents[p][k].description
      /\ \A l \in local :
           l.googleEventId # NoId => \E r \in remote : r.id = l.googleEventId

\* a completed run that had a changed remote event to copy and a local record
\* to mirror
C3_Witness ==
  \E p \in SyncProcs :
    /\ Finished(p)
    /\ OpsOf(p, "UpdateLocal") # {}
    /\ Len(googleEvents[p]) >= 1
    /\ \E l \in local : l.googleEventId # NoId


\* the record of run p's local snapshot with the given _id
SnapRecord(p, oid) ==
  mongoEvents[p][CHOOSE k \in 1..Len(mongoEvents[p]) : mongoEvents[p][k]._id = oid]

MappedInSnapshot(p, gid) ==
  \E k \in 1..Len(mongoEvents[p]) : mongoEvents[p][k].googleEventId = gid

\* C4: CreateLocal. A completed run has inserted exactly one local record for
\* every remote event of its snapshot that no local record carried, with the
\* remote event's id and fields, and none for a remote event that was mapped.
C4_CreateLocal ==
  \A p \in SyncProcs :
    Finished(p) =>
      \A k \in 1..Len(googleEvents[p]) :
        LET g == googleEvents[p][k]
            made == {n \in OpsOf(p, "CreateLocal") : ops[p][n].gid = g.id}
        IN IF MappedInSnapshot(p, g.id)
           THEN made = {}
           ELSE /\ Cardinality(made) = 1
                /\ Cardinality({l \in local : l.googleEventId = g.id}) = 1
                /\ \A n \in made :
                     MongoEvent(ops[p][n].oid, g.id, DataOf(g)) \in local

\* a completed run whose snapshot held a remote event without a local record
\* and a remote event with one
C4_Witness ==
  \E p \in SyncProcs :
    /\ Finished(p)
    /\ OpsOf(p, "CreateLocal") # {}
    /\ \E k \in 1..Len(googleEvents[p]) : MappedInSnapshot(p, googleEvents[p][k].id)

\* C5: UpdateLocal. In a completed run, a remote event r mapped to the local
\* record l made the run update l with r's data exactly when one of summary,
\* start, end, description differed; when all four were equal l was not written.
C5_UpdateLocal ==
  \A p \in SyncProcs :
    Finished(p) =>
      \A k \in 1..Len(googleEvents[p]) :
        LET g == googleEvents[p][k]
            n == MapIndex(mongoEvents[p], g.id)
        IN n # 0 =>
             LET l == mongoEvents[p][n]
                 differs == \/ g.summary # l.summary
                            \/ g.start # l.start
                            \/ g.end # l.end
                            \/ g.description # l.description
                 written == \E u \in OpsOf(p, "UpdateLocal") :
                              ops[p][u].oid = l._id /\ ops[p][u].gid = g.id
             IN /\ written <=> differs
                /\ differs => MongoEvent(l._id, g.id, DataOf(g)) \in local
                /\ ~differs => l \in local

\* a completed run that updated a local record
C5_Witness ==
  \E p \in SyncProcs : Finished(p) /\ OpsOf(p, "UpdateLocal") # {}

\* C6: CreateRemote then LinkLocal. In a completed run, every local record of
\* the snapshot whose googleEventId is set and matches no remote event of the
\* snapshot had exactly one remote event created from it, followed by the
\* update that sets its googleEventId to the new event's id; a record whose
\* googleEventId is in the snapshot had none created.
C6_CreateRemoteThenLink ==
  \A p \in SyncProcs :
    Finished(p) =>
      \A k \in 1..Len(mongoEvents[p]) :
        LET m == mongoEvents[p][k]
            made == {n \in OpsOf(p, "CreateRemote") : ops[p][n].oid = m._id}
        IN IF m.googleEventId # NoId /\ m.googleEventId \notin SnapshotIds(p)
           THEN /\ Cardinality(made) = 1
                /\ \A n \in made :
                     /\ n + 1 <= Len(ops[p])
                     /\ ops[p][n + 1] = Op("LinkLocal", m._id, ops[p][n].gid)
                     /\ GoogleEvent(ops[p][n].gid, DataOf(m)) \in remote
                     /\ MongoEvent(m._id, ops[p][n].gid, DataOf(m)) \in local
           ELSE made = {}

\* a completed run that created a remote event for a local record
C6_Witness ==
  \E p \in SyncProcs :
    /\ Finished(p)
    /\ OpsOf(p, "CreateRemote") # {}
    /\ OpsOf(p, "LinkLocal") # {}

\* C7: a local record without googleEventId is left alone by a run: no
\* operation of the run names it, it causes no remote create, and while
\* nothing outside the run changes the store it is still there unchanged.
C7_UnlinkedUntouched ==
  \A p \in SyncProcs :
    \A k \in 1..Len(mongoEvents[p]) :
      LET m == mongoEvents[p][k] IN
        m.googleEventId = NoId =>
          /\ \A n \in 1..Len(ops[p]) : ops[p][n].oid # m._id
          /\ quiet[p] => m \in local

\* a completed run whose snapshots held an unlinked local record and a remote event
C7_Witness ==
  \E p \in SyncProcs :
    /\ Finished(p)
    /\ Len(googleEvents[p]) >= 1
    /\ \E k \in 1..Len(mongoEvents[p]) : mongoEvents[p][k].googleEventId = NoId

\* C8: at most one local record carries a given googleEventId, in every
\* reachable state, whatever the interleaving of syncEvents and insertEvent.
C8_UniqueExternalId ==
  \A l1, l2 \in local :
    (l1.googleEventId # NoId /\ l1.googleEventId = l2.googleEventId) => l1 = l2

\* C9: two runs started concurrently can both create a remote event for the
\* same local record (the witness).  One run never creates two: the remote
\* events created for one record are as many as the runs that created them.
C9_OneCreatePerRun ==
  \A t1, t2 \in remoteCreates :
    (t1[1] = t2[1] /\ t1[2] # t2[2]) => t1[3] # t2[3]

\* two remote events exist that the two runs created for the same local record
C9_DuplicateRemote ==
  \E t1, t2 \in remoteCreates :
    /\ t1[1] = t2[1]
    /\ t1[2] # t2[2]
    /\ t1[3] # t2[3]
    /\ \E l \in local : l._id = t1[1]
    /\ {t1[2], t2[2]} \subseteq {r.id : r \in remote}

\* C10 (state part): nothing is mutated before both lists are fetched; no
\* insert or update of the first loop follows a remote create; a remote event
\* is created only for a record whose googleEventId is missing from the
\* original remote snapshot, never for an id created earlier in the same run.
C10_Order ==
  \A p \in SyncProcs :
    /\ pc[p] \in {"auth", "fetchG", "fetchM"} => ops[p] = <<>>
    /\ \A a, b \in 1..Len(ops[p]) :
         (a < b /\ ops[p][a].op \in {"CreateRemote", "LinkLocal"})
           => ops[p][b].op \in {"CreateRemote", "LinkLocal"}
    /\ \A n \in OpsOf(p, "CreateRemote") :
         LET m == SnapRecord(p, ops[p][n].oid) IN
           /\ m.googleEventId \notin SnapshotIds(p)
           /\ \A a \in OpsOf(p, "CreateRemote") : a < n => ops[p][a].gid # m.googleEventId

\* C10 (step part): once fetched, the two lists of a run do not change until
\* the run ends
C10_SnapshotKept ==
  \A p \in SyncProcs :
    (pc[p] \in {"g2m", "m2g", "link"} /\ pc'[p] \in {"g2m", "m2g", "link", "close"})
      => (googleEvents'[p] = googleEvents[p] /\ mongoEvents'[p] = mongoEvents[p])

\* C10: ordering and snapshot of one syncEvents run
C10_OrderAndSnapshot == []C10_Order /\ [][C10_SnapshotKept]_vars

\* a run that, after its first loop inserted a record, created a remote event
C10_Witness ==
  \E p \in SyncProcs :
    /\ pc[p] = "close"
    /\ OpsOf(p, "CreateLocal") # {}
    /\ OpsOf(p, "CreateRemote") # {}


\* ------------------------------------------ calculateFreeTimeIntervals
Interval(a, b) == [start |-> a, end |-> b]

\* the busy intervals of the events: start.dateTime before end.dateTime
BusyIntervals == {iv \in [start : 0..MaxTime, end : 0..MaxTime] : iv.start < iv.end}

RECURSIVE SeqsUpTo(_, _)
SeqsUpTo(S, n) ==
  IF n = 0 THEN {<<>>}
  ELSE LET shorter == SeqsUpTo(S, n - 1)
       IN shorter \cup {Append(q, x) : q \in {r \in shorter : Len(r) = n - 1}, x \in S}

\* events.sort((a, b) => new Date(a.start.dateTime) - new Date(b.start.dateTime)):
\* ascending by start, events with equal start keep their order
RECURSIVE SortByStart(_)
SortByStart(evs) ==
  IF evs = <<>> THEN <<>>
  ELSE LET sorted == SortByStart(SubSeq(evs, 1, Len(evs) - 1))
           x == evs[Len(evs)]
           before == {k \in 1..Len(sorted) : sorted[k].start <= x.start}
           n == Cardinality(before)
       IN SubSeq(sorted, 1, n) \o <<x>> \o SubSeq(sorted, n + 1, Len(sorted))

\* a test that also passes when the event starts exactly at the cursor
StartsAtOrAfterCursor(eventStart, cursor) == eventStart >= cursor

\* if (eventStart > currentFreeTimeStart)
StartsAfterCursor(eventStart, cursor) == eventStart > cursor

\* a cursor moved to the start of the event
CursorAtEventStart(cursor, event) == event.start

\* currentFreeTimeStart = eventEnd;
NextCursor(cursor, event) == event.end

\* a test with the two sides exchanged
EndOfDayBeforeCursor(endOfDay, cursor) == endOfDay < cursor

\* if (endOfDay > currentFreeTimeStart)
EndOfDayAfterCursor(endOfDay, cursor) == endOfDay > cursor

\* calculateFreeTimeIntervals(events) is called: the array is sorted, the
\* list of free intervals is empty and the cursor is new Date()
FreeCall ==
  /\ ftPc = "idle"
  /\ \E evs \in SeqsUpTo(BusyIntervals, MaxBusy) : ftEvents' = SortByStart(evs)
  /\ \E now \in 0..MaxTime : \E eod \in now..MaxTime :
       /\ ftNow' = now
       /\ ftEndOfDay' = eod
       /\ ftCursor' = now
  /\ ftIdx' = 1
  /\ ftFree' = <<>>
  /\ ftPc' = "loop"
  /\ UNCHANGED <<storeVars, syncVars, schedVars,
                 connOpen, dataVars>>

\* one iteration of for (const event of events)
FreeStep ==
  /\ ftPc = "loop"
  /\ ftIdx <= Len(ftEvents)
  /\ LET event == ftEvents[ftIdx] IN
       /\ ftFree' = IF StartsAfterCursor(event.start, ftCursor)
                    THEN Append(ftFree, Interval(ftCursor, event.start))
                    ELSE ftFree
       /\ ftCursor' = NextCursor(ftCursor, event)
  /\ ftIdx' = ftIdx + 1
  /\ UNCHANGED <<ftPc, ftEvents, ftNow, ftEndOfDay, storeVars, syncVars, schedVars,
                 connOpen, dataVars>>

\* after the loop: the remaining free time at the end of the day
FreeTail ==
  /\ ftPc = "loop"
  /\ ftIdx > Len(ftEvents)
  /\ ftFree' = IF EndOfDayAfterCursor(ftEndOfDay, ftCursor)
               THEN Append(ftFree, Interval(ftCursor, ftEndOfDay))
               ELSE ftFree
  /\ ftPc' = "done"
  /\ UNCHANGED <<ftEvents, ftNow, ftEndOfDay, ftCursor, ftIdx, storeVars, syncVars,
                 schedVars,
                 connOpen, dataVars>>

\* return freeTimeIntervals;
FreeReturn ==
  /\ ftPc = "done"
  /\ ftPc' = "idle"
  /\ ftEvents' = <<>>
  /\ ftNow' = 0
  /\ ftEndOfDay' = 0
  /\ ftCursor' = 0
  /\ ftIdx' = 1
  /\ ftFree' = <<>>
  /\ UNCHANGED <<storeVars, syncVars, schedVars,
                 connOpen, dataVars>>

NextFree ==
  \/ FreeCall
  \/ FreeStep
  \/ FreeTail
  \/ FreeReturn

\* calls of calculateFreeTimeIntervals on every list of at most MaxBusy events
SpecFree == Init /\ [][NextFree]_vars

\* calculateFreeTimeIntervals(events) as one function of the events, of
\* new Date() and of the end of the day
RECURSIVE FreeLoop(_, _, _)
FreeLoop(evs, cursor, free) ==
  IF evs = <<>> THEN [cursor |-> cursor, free |-> free]
  ELSE FreeLoop(Tail(evs), NextCursor(cursor, evs[1]),
                IF StartsAfterCursor(evs[1].start, cursor)
                THEN Append(free, Interval(cursor, evs[1].start))
                ELSE free)

calculateFreeTimeIntervals(evs, now, endOfDay) ==
  LET r == FreeLoop(SortByStart(evs), now, <<>>)
  IN IF EndOfDayAfterCursor(endOfDay, r.cursor)
     THEN Append(r.free, Interval(r.cursor, endOfDay))
     ELSE r.free

\* --------------------------------------------- tasks/scheduling_interface.js
\* the taskData of the tasks stored: a title and a duration in hours
TaskKinds == {[title |-> "A", duration |-> 1], [title |-> "B", duration |-> 3]}

\* the timeSlot and timeZone arguments: a slot in wall-clock hours and the
\* hours the user's time zone is ahead of UTC
SlotArgs == {[start |-> 3, end |-> 4, zone |-> 0], [start |-> 4, end |-> 6, zone |-> 1]}
Zones == {a.zone : a \in SlotArgs}

InvalidId == -1                      \* a string that is not a valid ObjectId

\* the taskId arguments: the ids of the stored tasks, an id no task has and
\* an invalid one
TaskIdArgs == (1..nextTid) \cup {InvalidId}

\* what require("../time") exports (module.exports of time/index.js)
TimeExports == {"syncEvents", "insertEvent", "updateEvent", "deleteEvent",
                "calculateFreeTimeIntervals"}

Task(id, title, duration, scheduled, calendarEventId) ==
  [_id |-> id, title |-> title, duration |-> duration, scheduled |-> scheduled,
   calendarEventId |-> calendarEventId]

\* a query that matches any task
FindAny(coll, id) ==
  IF coll = {} THEN NoTask ELSE CHOOSE t \in coll : TRUE

\* collection.findOne({_id}): the task, or null
FindOne(coll, id) ==
  IF \E t \in coll : t._id = id THEN CHOOSE t \in coll : t._id = id ELSE NoTask

\* a test that takes every task as linked to an event
HasLinkedEventAlways(task) == TRUE

\* if (task.calendarEventId)
HasLinkedEvent(task) == task.calendarEventId # NoId

\* an update that sets calendarEventId and leaves the scheduled flag alone
SetEventIdOnly(coll, id, scheduled, calendarEventId) ==
  {IF t._id = id THEN Task(t._id, t.title, t.duration, t.scheduled, calendarEventId)
   ELSE t : t \in coll}

\* an update that sets the scheduled flag and leaves calendarEventId alone
SetScheduledOnly(coll, id, scheduled, calendarEventId) ==
  {IF t._id = id THEN Task(t._id, t.title, t.duration, scheduled, t.calendarEventId)
   ELSE t : t \in coll}

\* collection.updateOne({_id}, {$set: {scheduled, calendarEventId}})
UpdateTaskData(coll, id, scheduled, calendarEventId) ==
  {IF t._id = id THEN Task(t._id, t.title, t.duration, scheduled, calendarEventId)
   ELSE t : t \in coll}

\* the ObjectId of a task: ObjectIds are unique across collections, so it is
\* the _id of no record of the events collection (those are 1..MaxOid)
ObjectIdOfTask(tid) == MaxOid + tid

\* collection.deleteOne({_id})
DeleteOne(coll, id) == {l \in coll : l._id # id}

\* moment.tz(t, timeZone).utc().format(): the wall-clock time t of the zone, in UTC
ToUtc(t, zone) == t - zone

\* moment.tz(t, "UTC").tz(timeZone).format(): the UTC instant t, in the zone
InZone(t, zone) == t + zone

\* description: `Task ID: ${taskId}`
TaskDescription(taskId) == "Task ID: " \o ToString(taskId)

\* const eventData = {summary, start, end, description}
SchEventData(task, arg) ==
  EventData(task.title, ToUtc(arg.start, arg.zone), ToUtc(arg.end, arg.zone),
            TaskDescription(arg.taskId))

\* interval.end.getTime() - interval.start.getTime() >= task.duration * 60 * 60 * 1000
LongEnough(interval, duration) == interval.end - interval.start >= duration

RECURSIVE FilterSlots(_, _)
FilterSlots(free, duration) ==
  IF free = <<>> THEN <<>>
  ELSE (IF LongEnough(free[1], duration) THEN <<free[1]>> ELSE <<>>)
       \o FilterSlots(Tail(free), duration)

\* suggestedTimeSlots.map(...): each slot in the user's time zone
SlotsInZone(slots, zone) ==
  [k \in 1..Len(slots) |-> Interval(InZone(slots[k].start, zone), InZone(slots[k].end, zone))]

\* tasksData.storeTask(taskData): the collection assigns the _id; a new task
\* has no scheduled flag and no calendarEventId
StoreTask ==
  /\ schPc = "idle"
  /\ nextTid <= MaxTask
  /\ \E kind \in TaskKinds :
       tasks' = tasks \cup {Task(nextTid, kind.title, kind.duration, FALSE, NoId)}
  /\ nextTid' = nextTid + 1
  /\ UNCHANGED <<schPc, schLocals, schResult, schCalls, storeVars, syncVars, freeVars,
                 unscheduled, connOpen, dataVars>>

\* scheduleTask(taskId, timeSlot, timeZone) is called: one more change made
\* outside syncEvents
ScheduleCall ==
  /\ schPc = "idle"
  /\ ext < MaxExternal
  /\ ext' = ext + 1
  /\ \E id \in TaskIdArgs : \E a \in SlotArgs :
       schArg' = [op |-> "scheduleTask", taskId |-> id, start |-> a.start,
                  end |-> a.end, zone |-> a.zone]
  /\ schPc' = "retrieve"
  /\ schResult' = "pending"
  /\ schCalls' = <<>>
  /\ UNCHANGED <<tasks, nextTid, schTask, schEvent, schFree, schSlots, storeVars,
                 runVars, quiet, settled, remoteCreates, insVars, started, syncResult,
                 freeVars,
                 unscheduled, connOpen, dataVars>>

\* suggestTimeSlots(taskId, timeZone) is called
SuggestCall ==
  /\ schPc = "idle"
  /\ \E id \in TaskIdArgs : \E zone \in Zones :
       schArg' = [op |-> "suggestTimeSlots", taskId |-> id, start |-> 0, end |-> 0,
                  zone |-> zone]
  /\ schPc' = "retrieve"
  /\ schResult' = "pending"
  /\ schCalls' = <<>>
  /\ UNCHANGED <<tasks, nextTid, schTask, schEvent, schFree, schSlots, storeVars,
                 syncVars, freeVars,
                 unscheduled, connOpen, dataVars>>

\* const task = await tasksData.retrieveTaskById(taskId);
\* if (!task) throw new Error(`Task with ID ${taskId} not found.`);
SchRetrieve ==
  /\ schPc = "retrieve"
  /\ IF schArg.taskId = InvalidId
     THEN /\ schResult' = "invalid id"
          /\ schPc' = "done"
          /\ UNCHANGED schTask
     ELSE LET task == FindOne(tasks, schArg.taskId) IN
          /\ schTask' = task
          /\ IF task = NoTask
             THEN schResult' = "not found" /\ schPc' = "done"
             ELSE /\ schPc' = CASE schArg.op = "scheduleTask" -> "create"
                                 [] schArg.op = "suggestTimeSlots" -> "fetch"
                                 [] OTHER -> IF HasLinkedEvent(task)
                                             THEN "delete" ELSE "clear"
                  /\ UNCHANGED schResult
  /\ UNCHANGED <<tasks, nextTid, schArg, schEvent, schCalls, schFree, schSlots,
                 storeVars, syncVars, freeVars,
                 unscheduled, connOpen, dataVars>>

\* insertEvent of time/index.js:
\* const googleEvent = await googleCalendar.createEvent(auth, id, eventData);
SchCreate ==
  /\ schPc = "create"
  /\ nextGid <= MaxGid
  /\ remote' = remote \cup {GoogleEvent(nextGid, SchEventData(schTask, schArg))}
  /\ nextGid' = nextGid + 1
  /\ schEvent' = [googleEventId |-> nextGid, mongoEventId |-> NoId]
  /\ schCalls' = Append(schCalls, "createEvent")
  /\ schPc' = "store"
  /\ UNCHANGED <<local, nextOid, tasks, nextTid, schArg, schTask, schResult, schFree,
                 schSlots, syncVars, freeVars,
                 unscheduled, connOpen, dataVars>>

\* const mongoEventId = await mongoCalendar.insertEvent({...eventData, googleEventId});
\* return {googleEventId, mongoEventId};
SchStore ==
  /\ schPc = "store"
  /\ nextOid <= MaxOid
  /\ local' = InsertOne(local, nextOid, schEvent.googleEventId,
                        SchEventData(schTask, schArg))
  /\ nextOid' = nextOid + 1
  /\ schEvent' = [schEvent EXCEPT !.mongoEventId = nextOid]
  /\ schCalls' = Append(schCalls, "insertEvent")
  /\ schPc' = "update"
  /\ connOpen' = TRUE
  /\ UNCHANGED <<remote, nextGid, tasks, nextTid, schArg, schTask, schResult, schFree,
                 schSlots, syncVars, freeVars,
                 unscheduled, dataVars>>

\* await tasksData.updateTaskData(taskId, {scheduled: true, calendarEventId});
\* return `Task scheduled successfully. ...`;
SchUpdateTask ==
  /\ schPc = "update"
  /\ tasks' = UpdateTaskData(tasks, schArg.taskId, TRUE, schEvent.googleEventId)
  /\ schCalls' = Append(schCalls, "updateTaskData")
  /\ schResult' = "scheduled"
  /\ schPc' = "done"
  /\ unscheduled' = unscheduled \ {schArg.taskId}
  /\ UNCHANGED <<nextTid, schLocals, storeVars, syncVars, freeVars,
                 connOpen, dataVars>>

\* an awaited call throws; catch (error) { ...; throw error; }: what was
\* applied before it stays applied
SchFail ==
  /\ schPc \in {"retrieve", "create", "store", "update", "delete", "deleteLocal", "clear"}
  /\ schResult' = IF schPc = "retrieve" THEN "lookup failed" ELSE "failed"
  /\ schPc' = "done"
  /\ UNCHANGED <<tasks, nextTid, schLocals, schCalls, storeVars, syncVars, freeVars,
                 unscheduled, connOpen, dataVars>>

\* suggestTimeSlots after the task was found:
\* const events = await timeModule.fetchEvents(calendarId, today, nextWeek);
\* and, when that is a function, the free intervals, the filter and the map
SuggestFetch ==
  /\ schPc = "fetch"
  /\ IF "fetchEvents" \notin TimeExports
     THEN /\ schResult' = "TypeError"
          /\ UNCHANGED <<schFree, schSlots>>
     ELSE /\ \E now \in 0..MaxTime : \E endOfDay \in now..MaxTime :
               schFree' = calculateFreeTimeIntervals(ListEvents, now, endOfDay)
          /\ schSlots' = SlotsInZone(FilterSlots(schFree', schTask.duration), schArg.zone)
          /\ schResult' = "returned"
  /\ schPc' = "done"
  /\ UNCHANGED <<tasks, nextTid, schArg, schTask, schEvent, schCalls, storeVars,
                 syncVars, freeVars,
                 unscheduled, connOpen, dataVars>>

\* unscheduleTask(taskId) is called
UnscheduleCall ==
  /\ schPc = "idle"
  /\ \E id \in TaskIdArgs :
       schArg' = [op |-> "unscheduleTask", taskId |-> id, start |-> 0, end |-> 0,
                  zone |-> 0]
  /\ schPc' = "retrieve"
  /\ schResult' = "pending"
  /\ schCalls' = <<>>
  /\ UNCHANGED <<tasks, nextTid, schTask, schEvent, schFree, schSlots, unscheduled,
                 storeVars, syncVars, freeVars, connOpen, dataVars>>

\* deleteEvent(task.calendarEventId, task._id) of time/index.js:
\* await googleCalendar.deleteEvent(auth, id, googleEventId);
\* the calendar answers the delete of an event it does not have with an error
UnschDeleteRemote ==
  /\ schPc = "delete"
  /\ schCalls' = Append(schCalls, "googleDeleteEvent")
  /\ IF \E e \in remote : e.id = schTask.calendarEventId
     THEN /\ remote' = {e \in remote : e.id # schTask.calendarEventId}
          /\ schPc' = "deleteLocal"
          /\ UNCHANGED schResult
     ELSE /\ schResult' = "failed"
          /\ schPc' = "done"
          /\ UNCHANGED remote
  /\ UNCHANGED <<local, nextGid, nextOid, tasks, nextTid, schLocals, unscheduled,
                 syncVars, freeVars, connOpen, dataVars>>

\* await mongoCalendar.deleteEvent(mongoEventId); with the _id of the task as
\* mongoEventId: collection.deleteOne({_id}) on the events collection
UnschDeleteLocal ==
  /\ schPc = "deleteLocal"
  /\ local' = DeleteOne(local, ObjectIdOfTask(schTask._id))
  /\ schCalls' = Append(schCalls, "mongoDeleteEvent")
  /\ schPc' = "clear"
  /\ connOpen' = TRUE
  /\ UNCHANGED <<remote, nextGid, nextOid, tasks, nextTid, schLocals, schResult,
                 unscheduled, syncVars, freeVars, dataVars>>

\* await tasksData.updateTaskData(taskId, {scheduled: false, calendarEventId: null});
\* return "Task unscheduled successfully.";
UnschClear ==
  /\ schPc = "clear"
  /\ tasks' = UpdateTaskData(tasks, schArg.taskId, FALSE, NoId)
  /\ schCalls' = Append(schCalls, "updateTaskData")
  /\ schResult' = "unscheduled"
  /\ schPc' = "done"
  /\ unscheduled' = IF schTask.calendarEventId # NoId
                    THEN unscheduled \cup {schArg.taskId} ELSE unscheduled
  /\ UNCHANGED <<nextTid, schLocals, storeVars, syncVars, freeVars, connOpen, dataVars>>

\* the caller has the result: the call is over
SchReturn ==
  /\ schPc = "done"
  /\ schPc' = "idle"
  /\ schArg' = NoArg
  /\ schTask' = NoTask
  /\ schEvent' = NoEvent
  /\ schResult' = "none"
  /\ schCalls' = <<>>
  /\ schFree' = <<>>
  /\ schSlots' = <<>>
  /\ UNCHANGED <<tasks, nextTid, storeVars, syncVars, freeVars,
                 unscheduled, connOpen, dataVars>>

NextSched ==
  \/ StoreTask
  \/ ScheduleCall
  \/ SuggestCall
  \/ SchRetrieve
  \/ SchCreate
  \/ SchStore
  \/ SchUpdateTask
  \/ SchFail
  \/ SuggestFetch
  \/ SchReturn

\* calls of scheduleTask and suggestTimeSlots, one at a time, on stored tasks
SpecSched == Init /\ [][NextSched]_vars

NextLife ==
  \/ StoreTask
  \/ ScheduleCall
  \/ UnscheduleCall
  \/ SchRetrieve
  \/ SchCreate
  \/ SchStore
  \/ SchUpdateTask
  \/ SchFail
  \/ UnschDeleteRemote
  \/ UnschDeleteLocal
  \/ UnschClear
  \/ SchReturn

\* calls of scheduleTask and unscheduleTask, one at a time, on stored tasks
SpecLife == Init /\ [][NextLife]_vars

\* ------------------------------------------ createTask (tasks_manager.js)
JsString(str) == JsValue("string", str, 0, FALSE, FALSE)
JsNumber(num) == JsValue("number", "", num, FALSE, FALSE)
JsNaN == JsValue("number", "", 0, TRUE, FALSE)
JsDateString(str, valid) == JsValue("string", str, 0, FALSE, valid)

\* the records createTask is called with
TitleArgs == {Missing, JsString(""), JsString("A"), JsNumber(5)}
DurationArgs == {Missing, JsNumber(0), JsNumber(2), JsNaN, JsString("2")}
DateArgs == {Missing, JsDateString("soon", FALSE), JsDateString("2024-05-01", TRUE)}
TaskDataArgs == [title : TitleArgs, duration : DurationArgs, date : DateArgs]

\* !value is false
Truthy(x) ==
  CASE x.type = "string" -> x.s # ""
    [] x.type = "number" -> x.n # 0 /\ ~x.nan
    [] OTHER -> FALSE

\* a validation that tests the title alone
ValidateTitleOnly(d) ==
  IF ~Truthy(d.title) \/ d.title.type # "string" THEN "title" ELSE "ok"

\* validateTaskData of tasks_manager.js: the field it throws for, or "ok"
validateTaskData(d) ==
  IF ~Truthy(d.title) \/ d.title.type # "string" THEN "title"
  ELSE IF ~Truthy(d.duration) \/ d.duration.type # "number" THEN "duration"
  ELSE IF ~Truthy(d.date) \/ ~d.date.validDate THEN "date"
  ELSE "ok"

\* validateTaskData of tasks_data.js, called by storeTask before it connects
StoreValidateTaskData(d) ==
  IF ~Truthy(d.title) \/ d.title.type # "string" THEN "title"
  ELSE IF ~Truthy(d.duration) \/ d.duration.type # "number" THEN "duration"
  ELSE IF ~Truthy(d.date) \/ ~d.date.validDate THEN "date"
  ELSE "ok"

\* everything but the createTask call and the tasks collection
notCreateVars == <<storeVars, syncVars, freeVars, schPc, schLocals, schResult, schCalls,
                   unscheduled, connOpen, connVars>>

\* createTask(taskData) up to its first await: validateTaskData, then
\* storeTask, which validates again before it connects
CreateTaskCall ==
  /\ ctPc = "idle"
  /\ \E d \in TaskDataArgs :
       /\ ctData' = d
       /\ IF validateTaskData(d) # "ok"
          THEN /\ ctResult' = "validation error"
               /\ ctCalls' = <<>>
               /\ ctPc' = "done"
          ELSE /\ ctCalls' = <<"storeTask">>
               /\ IF StoreValidateTaskData(d) # "ok"
                  THEN ctResult' = "validation error" /\ ctPc' = "done"
                  ELSE ctResult' = "pending" /\ ctPc' = "store"
  /\ UNCHANGED <<tasks, nextTid, notCreateVars>>

\* const result = await collection.insertOne(taskData); return result.insertedId;
\* and createTask returns `Task created successfully with ID: ...`
CreateTaskStore ==
  /\ ctPc = "store"
  /\ nextTid <= MaxTask
  /\ tasks' = tasks \cup {Task(nextTid, ctData.title.s, ctData.duration.n, FALSE, NoId)}
  /\ nextTid' = nextTid + 1
  /\ ctCalls' = Append(ctCalls, "insertOne")
  /\ ctResult' = "created"
  /\ ctPc' = "done"
  /\ UNCHANGED <<ctData, notCreateVars>>

\* connectToDatabase or insertOne throws: the error is thrown again
CreateTaskFail ==
  /\ ctPc = "store"
  /\ ctResult' = "store error"
  /\ ctPc' = "done"
  /\ UNCHANGED <<ctData, ctCalls, tasks, nextTid, notCreateVars>>

\* the caller has the result: the call is over
CreateTaskReturn ==
  /\ ctPc = "done"
  /\ ctPc' = "idle"
  /\ ctData' = NoTaskData
  /\ ctResult' = "none"
  /\ ctCalls' = <<>>
  /\ UNCHANGED <<tasks, nextTid, notCreateVars>>

NextCreate ==
  \/ CreateTaskCall
  \/ CreateTaskStore
  \/ CreateTaskFail
  \/ CreateTaskReturn

\* calls of createTask, one at a time
SpecCreate == Init /\ [][NextCreate]_vars

\* the record has a non-empty string title, a number other than 0 and NaN as
\* duration, and a date that new Date() can read
WellFormedTask(d) ==
  /\ d.title.type = "string" /\ d.title.s # ""
  /\ d.duration.type = "number" /\ d.duration.n # 0 /\ ~d.duration.nan
  /\ d.date.type # "undefined" /\ d.date.validDate

\* C24: createTask of a record that lacks a string title, a numeric non-zero
\* duration or a valid date fails with a validation error before any call of
\* the store and leaves the tasks collection unchanged; of a valid record it
\* inserts exactly one task.
C24_CreateStep ==
  /\ (ctPc = "idle" /\ ctPc' # "idle") =>
       /\ tasks' = tasks
       /\ IF WellFormedTask(ctData')
          THEN ctPc' = "store"
          ELSE ctPc' = "done" /\ ctResult' = "validation error" /\ ctCalls' = <<>>
  /\ (ctPc = "store" /\ ctResult' = "created") =>
       /\ Cardinality(tasks' \ tasks) = 1
       /\ tasks \subseteq tasks'
       /\ \A t \in tasks' \ tasks :
            t.title = ctData.title.s /\ t.duration = ctData.duration.n
  /\ (ctPc # "store" \/ ctResult' # "created") => tasks' = tasks

\* C24 as a property of every step
C24_ValidateBeforeStore == [][C24_CreateStep]_vars

\* C24 reached: a rejected record after a task was created
C24_Witness ==
  /\ ctPc = "done"
  /\ ctResult = "validation error"
  /\ ctData.title = JsString("A")
  /\ ctData.duration # JsNumber(2)
  /\ tasks # {}

\* ------------------------------ the scheduling interface and syncEvents
\* no syncEvents run and no scheduling call is in progress
SyncIdle == \A p \in SyncProcs : pc[p] = "idle"
SchedCallIdle == schPc = "idle"
NoSyncYet == \A p \in SyncProcs : ~started[p]

\* the host makes one call at a time: first calls of scheduleTask and
\* unscheduleTask and edits by the owner of the calendar, then a run of
\* syncEvents
ScheduleBeforeSync == NoSyncYet /\ ScheduleCall
UnscheduleBeforeSync == NoSyncYet /\ UnscheduleCall
EditBeforeSync == NoSyncYet /\ SchedCallIdle /\ RemoteEdit
SyncAfterCalls(p) == SchedCallIdle /\ StartSyncOnce(p)

NextResync ==
  \/ StoreTask
  \/ ScheduleBeforeSync
  \/ UnscheduleBeforeSync
  \/ EditBeforeSync
  \/ SchRetrieve
  \/ SchCreate
  \/ SchStore
  \/ SchUpdateTask
  \/ SchFail
  \/ UnschDeleteRemote
  \/ UnschDeleteLocal
  \/ UnschClear
  \/ SchReturn
  \/ \E p \in SyncProcs :
       \/ SyncAfterCalls(p)
       \/ Authenticate(p)
       \/ FetchGoogle(p)
       \/ FetchMongo(p)
       \/ G2MInsert(p)
       \/ G2MUpdate(p)
       \/ G2MSkip(p)
       \/ G2MDone(p)
       \/ M2GSkip(p)
       \/ M2GCreate(p)
       \/ M2GLink(p)
       \/ M2GDone(p)
       \/ SyncClose(p)

\* calls of the scheduling interface followed by one run of syncEvents
SpecResync == Init /\ [][NextResync]_vars

\* ----------------------------- connectToDatabase / closeConnection
\* client.isConnected() (time/mongo_calendar.js) and
\* client.topology && client.topology.isConnected() (tasks/tasks_data.js)
IsConnected(c) == clients[c] = "connected"

\* if (!client || !client.isConnected())
NeedsConnect == client = NoId \/ ~IsConnected(client)

\* everything but the connection singleton of the module
notConnVars == <<storeVars, syncVars, freeVars, schedVars, connOpen, createVars>>

\* connectToDatabase() up to its first await: either the module's client is
\* connected and is returned, or client = new MongoClient(...) replaces it and
\* client.connect() is awaited
ConnCheck(p) ==
  /\ cpc[p] = "idle"
  /\ IF NeedsConnect
     THEN /\ nextClient <= MaxClient
          /\ client' = nextClient
          /\ clients' = [clients EXCEPT ![nextClient] = "connecting"]
          /\ nextClient' = nextClient + 1
          /\ cown' = [cown EXCEPT ![p] = nextClient]
          /\ cpc' = [cpc EXCEPT ![p] = "connecting"]
     ELSE /\ cown' = [cown EXCEPT ![p] = client]
          /\ cpc' = [cpc EXCEPT ![p] = "using"]
          /\ UNCHANGED <<client, clients, nextClient>>
  /\ UNCHANGED notConnVars

\* await client.connect() resolves; return client; (the module's client at
\* that moment)
ConnConnected(p) ==
  /\ cpc[p] = "connecting"
  /\ clients' = [clients EXCEPT ![cown[p]] = "connected"]
  /\ cown' = [cown EXCEPT ![p] = client]
  /\ cpc' = [cpc EXCEPT ![p] = "using"]
  /\ UNCHANGED <<client, nextClient, notConnVars>>

\* await client.connect() rejects: the error is logged and thrown again
ConnFail(p) ==
  /\ cpc[p] = "connecting"
  /\ clients' = [clients EXCEPT ![cown[p]] = "failed"]
  /\ cown' = [cown EXCEPT ![p] = NoId]
  /\ cpc' = [cpc EXCEPT ![p] = "idle"]
  /\ UNCHANGED <<client, nextClient, notConnVars>>

\* the caller is done with the client it was given and does not close it
ConnRelease(p) ==
  /\ cpc[p] = "using"
  /\ cown' = [cown EXCEPT ![p] = NoId]
  /\ cpc' = [cpc EXCEPT ![p] = "idle"]
  /\ UNCHANGED <<client, clients, nextClient, notConnVars>>

\* closeConnection(): if (client && client.isConnected()) await client.close();
ConnClose(p) ==
  /\ cpc[p] = "using"
  /\ client # NoId
  /\ IsConnected(client)
  /\ clients' = [clients EXCEPT ![client] = "closed"]
  /\ cown' = [cown EXCEPT ![p] = NoId]
  /\ cpc' = [cpc EXCEPT ![p] = "idle"]
  /\ UNCHANGED <<client, nextClient, notConnVars>>

NextConn ==
  \E p \in ConnProcs :
    \/ ConnCheck(p)
    \/ ConnConnected(p)
    \/ ConnFail(p)
    \/ ConnRelease(p)
    \/ ConnClose(p)

\* two concurrent callers of one data adapter module
SpecConn == Init /\ [][NextConn]_vars

\* the MongoClient objects that are connected or connecting
LiveClients == {n \in 1..MaxClient : clients[n] \in {"connecting", "connected"}}

\* C25: while a connected client exists or a connect is in progress no
\* further MongoClient is created: at most one client of the module is
\* connected or connecting at any time.
C25_OneClient == Cardinality(LiveClients) <= 1

\* ------------------------------------------ shared by the free-time claims
Max2(a, b) == IF a >= b THEN a ELSE b
Min2(a, b) == IF a <= b THEN a ELSE b

\* total length of a list of intervals
RECURSIVE TotalLength(_)
TotalLength(ivs) ==
  IF ivs = <<>> THEN 0
  ELSE (ivs[1].end - ivs[1].start) + TotalLength(Tail(ivs))

\* the part of each interval that lies in [s, e)
RECURSIVE ClipTo(_, _, _)
ClipTo(ivs, s, e) ==
  IF ivs = <<>> THEN <<>>
  ELSE LET a == Max2(ivs[1].start, s)
           b == Min2(ivs[1].end, e)
       IN (IF a < b THEN <<Interval(a, b)>> ELSE <<>>) \o ClipTo(Tail(ivs), s, e)

\* no interval of the list starts before an earlier one ends
NonOverlapping(ivs) ==
  \A k \in 1..(Len(ivs) - 1) : ivs[k].end <= ivs[k + 1].start

\* calculateFreeTimeIntervals has computed its result
FreeDone == ftPc = "done"

\* C12: for sorted non-overlapping busy intervals and the window
\* [now, endOfDay), the free intervals returned and the busy time inside the
\* window add up to the length of the window.
C12_Coverage ==
  (FreeDone /\ NonOverlapping(ftEvents)) =>
    TotalLength(ftFree) + TotalLength(ClipTo(ftEvents, ftNow, ftEndOfDay))
      = ftEndOfDay - ftNow

\* C13: the cursor never moves backward while the sorted busy intervals are
\* iterated.
C13_StepKeepsCursor ==
  (ftPc = "loop" /\ ftPc' = "loop" /\ ftIdx' = ftIdx + 1) => ftCursor' >= ftCursor

\* C13 as a property of every step
C13_CursorMonotone == [][C13_StepKeepsCursor]_vars

\* C14: a busy interval that ends before the reference start is skipped, so
\* no returned free interval starts before the reference start.
C14_NoFreeBeforeStart ==
  FreeDone => \A k \in 1..Len(ftFree) : ftFree[k].start >= ftNow

\* C15: every returned interval has start < end, and the returned list is
\* ascending by start with no two intervals overlapping.
C15_WellFormed ==
  FreeDone =>
    /\ \A k \in 1..Len(ftFree) : ftFree[k].start < ftFree[k].end
    /\ \A k \in 1..(Len(ftFree) - 1) :
         /\ ftFree[k].start < ftFree[k + 1].start
         /\ ftFree[k].end <= ftFree[k + 1].start

\* C15 reached: overlapping busy intervals and a result of two intervals
C15_Witness ==
  /\ FreeDone
  /\ ~NonOverlapping(ftEvents)
  /\ Len(ftFree) = 2

\* C16: with no busy intervals and now before endOfDay the result is exactly
\* the one interval from now to endOfDay.
C16_EmptyBusy ==
  (FreeDone /\ ftEvents = <<>> /\ ftNow < ftEndOfDay) =>
    ftFree = <<Interval(ftNow, ftEndOfDay)>>

\* C16 reached: a call with no events has returned
C16_Witness ==
  /\ FreeDone
  /\ ftEvents = <<>>
  /\ ftNow < ftEndOfDay
  /\ Len(ftFree) = 1

\* one busy interval strictly inside the window
SingleInside ==
  /\ Len(ftEvents) = 1
  /\ ftNow < ftEvents[1].start
  /\ ftEvents[1].end < ftEndOfDay

\* C17: one busy interval [b1, b2) with now < b1 < b2 < endOfDay gives exactly
\* [now, b1) and [b2, endOfDay), in that order.
C17_SingleBusy ==
  (FreeDone /\ SingleInside) =>
    ftFree = <<Interval(ftNow, ftEvents[1].start),
               Interval(ftEvents[1].end, ftEndOfDay)>>

\* C17 reached: a call with one event inside the window has returned
C17_Witness ==
  /\ FreeDone
  /\ SingleInside
  /\ Len(ftFree) = 2

\* two intervals have an instant in common
Intersects(a, b) == a.start < b.end /\ b.start < a.end

\* C26: no interval returned by calculateFreeTimeIntervals intersects an
\* input busy interval, overlapping and nested busy intervals included.
C26_FreeAvoidsBusy ==
  FreeDone =>
    \A k \in 1..Len(ftFree) : \A j \in 1..Len(ftEvents) :
      ~Intersects(ftFree[k], ftEvents[j])

\* the ids present in the two event stores
RemoteIds == {e.id : e \in remote}
LocalIds == {l._id : l \in local}

\* C29: a step of a sync run deletes nothing: every remote event and every
\* local record present before the step is still present after it.
C29_SyncStepKeeps ==
  (runVars' # runVars) =>
    /\ \A id \in RemoteIds : \E e \in remote' : e.id = id
    /\ \A id \in LocalIds : \E l \in local' : l._id = id

\* C29 as a property of every step
C29_NeverDeletes == [][C29_SyncStepKeeps]_vars

\* C29 reached: a run that inserted a local record, created a remote event
\* and linked it
C29_Witness ==
  \E p \in SyncProcs :
    /\ pc[p] = "close"
    /\ OpsOf(p, "CreateLocal") # {}
    /\ OpsOf(p, "CreateRemote") # {}
    /\ OpsOf(p, "LinkLocal") # {}
    /\ RemoteIds # {}
    /\ LocalIds # {}

\* run q is at a point from which, unless it fails, it still calls
\* mongo_calendar.js: before its fetch of the local records, or between a
\* remote create and the update that links it
StoreOpsAhead(q) == pc[q] \in {"auth", "fetchG", "fetchM", "link"}

\* C30: the finally block of every run, failed or not, leaves the module-wide
\* connection closed, and it closes an open connection only when no other
\* run still has event-store operations to perform.
C30_CloseStep ==
  \A p \in ConcProcs :
    (pc[p] = "close" /\ pc'[p] = "idle") =>
      /\ ~connOpen'
      /\ connOpen => \A q \in ConcProcs \ {p} : ~StoreOpsAhead(q)

\* C30 as a property of every step
C30_ClosedOnlyAtEnd == [][C30_CloseStep]_vars

\* ------------------------------------------ shared by the scheduling claims
\* a call of the scheduling interface is over and the caller has its result
SchDone(op) == schPc = "done" /\ schArg.op = op

\* the taskId is a valid id that no stored task has
UnknownTask(id) == id # InvalidId /\ \A t \in tasks : t._id # id

\* C18: for a stored task suggestTimeSlots returns exactly the free intervals
\* at least as long as the task's duration, none shorter, in the order of the
\* list of free intervals.
C18_SuggestFilter ==
  (SchDone("suggestTimeSlots") /\ schTask # NoTask) =>
    /\ schResult = "returned"
    /\ \A k \in 1..Len(schSlots) :
         schSlots[k].end - schSlots[k].start >= schTask.duration
    /\ schSlots = SlotsInZone(FilterSlots(schFree, schTask.duration), schArg.zone)

\* C19: scheduleTask on an unknown task id fails with the not-found error
\* (or with the error of the lookup, when the lookup itself throws), calls
\* neither the calendar nor the event store nor the task update, and leaves
\* both event stores and the task store as they were.
C19_UnknownStep ==
  (schPc # "idle" /\ schArg.op = "scheduleTask" /\ UnknownTask(schArg.taskId)) =>
    /\ UNCHANGED <<remote, local, tasks>>
    /\ schCalls = <<>>
    /\ schPc' = "done" => schResult' \in {"not found", "lookup failed"}

\* C19 as a property of every step
C19_UnknownTask == [][C19_UnknownStep]_vars

\* C19 reached: the not-found error, with tasks and events in the stores
C19_Witness ==
  /\ SchDone("scheduleTask")
  /\ UnknownTask(schArg.taskId)
  /\ schResult = "not found"
  /\ tasks # {}
  /\ remote # {}
  /\ local # {}

\* the events of a store that carry the remote id of the event just created
RemoteOfCall == {e \in remote : e.id = schEvent.googleEventId}
LocalOfCall == {m \in local : m.googleEventId = schEvent.googleEventId}

\* C20: when scheduleTask returns for a stored task, one remote event for the
\* chosen slot exists, one local record carries its id, and the task is
\* scheduled with calendarEventId set to that id.
C20_ScheduleSuccess ==
  (SchDone("scheduleTask") /\ schResult = "scheduled") =>
    /\ schEvent.googleEventId # NoId
    /\ Cardinality(RemoteOfCall) = 1
    /\ Cardinality(LocalOfCall) = 1
    /\ \A e \in RemoteOfCall \cup LocalOfCall :
         /\ e.summary = schTask.title
         /\ e.start = ToUtc(schArg.start, schArg.zone)
         /\ e.end = ToUtc(schArg.end, schArg.zone)
    /\ \E t \in tasks :
         /\ t._id = schArg.taskId
         /\ t.scheduled
         /\ t.calendarEventId = schEvent.googleEventId

\* C20 reached: a second scheduleTask has returned, in a zone ahead of UTC
C20_Witness ==
  /\ SchDone("scheduleTask")
  /\ schResult = "scheduled"
  /\ schArg.zone # 0
  /\ Cardinality(remote) = 2

\* the task of the current call had an event linked when the call read it
WasLinked == schTask # NoTask /\ schTask.calendarEventId # NoId

\* C21: after unscheduleTask returned for a scheduled task, the event that
\* was linked to it is neither on the remote calendar nor in the local event
\* store, and the task has scheduled = false and no linked event id.
C21_UnscheduleRemoves ==
  (SchDone("unscheduleTask") /\ schResult = "unscheduled" /\ WasLinked) =>
    /\ \A e \in remote : e.id # schTask.calendarEventId
    /\ \A l \in local : l.googleEventId # schTask.calendarEventId
    /\ \E t \in tasks :
         t._id = schArg.taskId /\ ~t.scheduled /\ t.calendarEventId = NoId

\* the current call is unscheduleTask on a stored task that has no linked event
UnscheduleOfUnlinked ==
  /\ schArg.op = "unscheduleTask"
  /\ schPc \in {"clear", "done"}
  /\ schTask # NoTask
  /\ schTask.calendarEventId = NoId

\* C22: unscheduleTask on an already unscheduled task deletes nothing from
\* either event store, makes no delete call, and returns without an error
\* (unless the task update itself throws) with the task left at
\* scheduled = false and no linked event id.
C22_NoOpStep ==
  UnscheduleOfUnlinked =>
    /\ UNCHANGED <<remote, local>>
    /\ \A k \in 1..Len(schCalls) :
         schCalls[k] \notin {"googleDeleteEvent", "mongoDeleteEvent"}
    /\ (schPc = "done" /\ schResult # "failed") =>
         /\ schResult = "unscheduled"
         /\ \E t \in tasks :
              t._id = schArg.taskId /\ ~t.scheduled /\ t.calendarEventId = NoId

\* C22 as a property of every step
C22_UnscheduleNoOp == [][C22_NoOpStep]_vars

\* C22 reached: unscheduleTask has returned for a task with no linked event
\* while another task is scheduled
C22_Witness ==
  /\ UnscheduleOfUnlinked
  /\ schPc = "done"
  /\ schResult = "unscheduled"
  /\ \E t \in tasks : t.scheduled
  /\ remote # {}

\* C23: whatever calls of scheduleTask and unscheduleTask were made, and
\* wherever they failed, a task has scheduled = true exactly when its linked
\* event id is set.
C23_ScheduledIffLinked ==
  \A t \in tasks : t.scheduled <=> t.calendarEventId # NoId

\* C23 reached: a call failed partway, one task was unscheduled and another
\* is scheduled
C23_Witness ==
  /\ schPc = "done"
  /\ schResult = "failed"
  /\ unscheduled # {}
  /\ \E t \in tasks : t.scheduled /\ t.calendarEventId # NoId

\* C28: between calls, every event on the calendar (all of them were created
\* by scheduleTask) is the linked event of exactly one task.
C28_NoOrphanEvent ==
  schPc = "idle" =>
    \A e \in remote : Cardinality({t \in tasks : t.calendarEventId = e.id}) = 1

\* C27: once unscheduleTask has returned for a scheduled task (and the task
\* was not scheduled again), no step of a later syncEvents run puts an event
\* of that task on the remote calendar.
C27_SyncStepKeepsUnscheduled ==
  (runVars' # runVars) =>
    \A e \in remote' \ remote : \A t \in unscheduled :
      e.description # TaskDescription(t)

\* C27 as a property of every step
C27_EventStaysRemoved == [][C27_SyncStepKeepsUnscheduled]_vars

\* C11: a failure of a collaborator call aborts the operation and is reported
\* to the caller as an error.  For syncEvents: a run that entered the catch
\* block ends with its promise rejected.
C11_SyncFailureReported ==
  \A p \in SyncProcs :
    (pc[p] = "close" /\ failed[p] /\ pc'[p] = "idle") => syncResult'[p] = "rejected"

\* C11 as a property of every step
C11_FailureReported == [][C11_SyncFailureReported]_vars

====
